---- MODULE Spec2Model ----
(***************************************************************************)
(* A model of libziparchive/unzip.cpp: the unzip / zipinfo command line    *)
(* tool.  Entry names are sequences of one-character strings, the file     *)
(* system is a function from resolved locations (sequences of path         *)
(* components, counted from "/") to nodes, and a run of main() is a state  *)
(* machine whose steps are the calls into the archive parser, the          *)
(* per-entry handlers and the reads of standard input.                     *)
(***************************************************************************)
EXTENDS Integers, Sequences, FiniteSets, TLC

VARIABLES
    argv,              \* the command line after argv[0]
    optind,            \* getopt's index of the next element of argv
    archive_name,      \* <<>> stands for nullptr
    is_unzip,          \* personality, from basename(argv[0])
    flag_1, flag_l, flag_p, flag_q, flag_v, flag_x,
    overwrite_mode,    \* kAlways / kNever / kPrompt
    includes, excludes,
    total_uncompressed_length, total_compressed_length, file_count,
    fs,                \* the file system: location -> node
    fs0,               \* the file system as it was when the run started
    pc,                \* where main() is
    name,              \* the name Next() last gave, while it is in use
    entry,             \* the entry ProcessOne is working on
    cmd,               \* what PromptOverwrite's getline() just gave
    zah, cookie,       \* archive handle and iteration cursor
    releases,          \* the releases performed, in order
    open_fds,          \* descriptors ExtractOne opened and has not closed
    exit_status,       \* -1 while the process runs, then its exit status
    diagnostic,        \* the message of the error() call that ended the run
    prompts,           \* "replace ...?" questions printed so far
    fetched,           \* entries Next() has yielded so far
    accepted,          \* what ShouldInclude accepted so far: count and sums
    trace,             \* what the run printed and did per entry, in order
    mdh_path,          \* argument of a call of MakeDirectoryHierarchy
    returned           \* what the calls of MakeDirectoryHierarchy returned

vars == <<argv, optind, archive_name, is_unzip, flag_1, flag_l, flag_p,
          flag_q, flag_v, flag_x, overwrite_mode, includes,
          excludes, total_uncompressed_length, total_compressed_length,
          file_count, fs, fs0, pc, name, entry, cmd, zah, cookie, releases,
          open_fds, exit_status, diagnostic, prompts, fetched, accepted,
          trace, mdh_path, returned>>

\* What a run leaves as main()'s option loop set it.
config == <<argv, optind, archive_name, is_unzip, flag_1, flag_l, flag_p,
            flag_q, flag_v, flag_x, includes, excludes, fs0, mdh_path, returned>>

----------------------------------------------------------------------------
(* Bounds of the model.                                                    *)

\* Entries the archive parser yields in one run.
MaxEntries == 3

----------------------------------------------------------------------------
(* Strings: sequences of one-character strings.                            *)

MaxOf(S) == IF S = {} THEN 0 ELSE CHOOSE x \in S : \A y \in S : y <= x

StartsWith(s, prefix) ==
    /\ Len(s) >= Len(prefix)
    /\ SubSeq(s, 1, Len(prefix)) = prefix

EndsWith(s, suffix) ==
    /\ Len(s) >= Len(suffix)
    /\ SubSeq(s, Len(s) - Len(suffix) + 1, Len(s)) = suffix

\* std::string::find(needle) != npos
Contains(s, needle) ==
    \E i \in 1..(Len(s) - Len(needle) + 1) :
        SubSeq(s, i, i + Len(needle) - 1) = needle

\* Index of the last character of s that is not a separator, 0 if none.
LastNonSlash(s) == MaxOf({i \in 1..Len(s) : s[i] # "/"})

\* android::base::Dirname, which is dirname(3).
Dirname(path) ==
    LET e == LastNonSlash(path) IN
    IF e = 0 THEN (IF Len(path) = 0 THEN <<".">> ELSE <<"/">>)
    ELSE LET sl == MaxOf({i \in 1..e : path[i] = "/"}) IN
         IF sl = 0 THEN <<".">>
         ELSE LET d == LastNonSlash(SubSeq(path, 1, sl)) IN
              IF d = 0 THEN <<"/">> ELSE SubSeq(path, 1, d)

----------------------------------------------------------------------------
(* fnmatch(pattern, name, 0): '*' matches any run of characters, '?' any   *)
(* one character, and with no flags a separator or a leading period is     *)
(* matched like any other character.                                       *)

RECURSIVE fnmatch(_, _)
fnmatch(pattern, string) ==
    IF pattern = <<>> THEN string = <<>>
    ELSE IF Head(pattern) = "*"
         THEN \/ fnmatch(Tail(pattern), string)
              \/ (string # <<>> /\ fnmatch(pattern, Tail(string)))
    ELSE IF string = <<>> THEN FALSE
    ELSE /\ (Head(pattern) = "?" \/ Head(pattern) = Head(string))
         /\ fnmatch(Tail(pattern), Tail(string))

----------------------------------------------------------------------------
(* The file system.                                                        *)

Dot    == <<".">>
DotDot == <<".", ".">>

\* The extraction root: the working directory once main() has done its chdir.
Root == << <<"r">> >>

DirNode        == [kind |-> "dir", data |-> 0]
FileNode(data) == [kind |-> "file", data |-> data]

\* Content of a file that existed before the run, and of a file just
\* created or truncated.
OldData   == -1
EmptyData == 0

Parent(loc) == IF loc = <<>> THEN <<>> ELSE SubSeq(loc, 1, Len(loc) - 1)

IsDir(f, loc)  == loc \in DOMAIN f /\ f[loc].kind = "dir"
IsFile(f, loc) == loc \in DOMAIN f /\ f[loc].kind = "file"

\* loc lies in the extraction root (and is not the root itself).
InsideRoot(loc) == Len(loc) > Len(Root) /\ StartsWith(loc, Root)

\* The components of a path: the maximal runs of non-separator characters.
\* Length of the run of non-separator characters path starts with.
FirstLen(path) ==
    LET stops == {i \in 1..Len(path) : path[i] = "/"} IN
    IF stops = {} THEN Len(path)
    ELSE (CHOOSE i \in stops : \A j \in stops : i <= j) - 1

RECURSIVE Components(_)
Components(path) ==
    IF path = <<>> THEN <<>>
    ELSE IF Head(path) = "/" THEN Components(Tail(path))
    ELSE <<SubSeq(path, 1, FirstLen(path))>>
            \o Components(SubSeq(path, FirstLen(path) + 1, Len(path)))

\* One step of path resolution.
Step(loc, c) ==
    IF c = Dot THEN loc ELSE IF c = DotDot THEN Parent(loc) ELSE Append(loc, c)

\* The kernel's path walk from loc: every component but the last has to be
\* an existing directory.  dots: the last component is "." or "..".
RECURSIVE Walk(_, _, _)
Walk(f, loc, comps) ==
    IF comps = <<>> THEN [errno |-> "OK", loc |-> loc, dots |-> TRUE]
    ELSE IF Len(comps) = 1
         THEN [errno |-> "OK", loc |-> Step(loc, Head(comps)),
               dots |-> Head(comps) \in {Dot, DotDot}]
    ELSE IF Step(loc, Head(comps)) \notin DOMAIN f
         THEN [errno |-> "ENOENT", loc |-> Step(loc, Head(comps)), dots |-> FALSE]
    ELSE IF f[Step(loc, Head(comps))].kind # "dir"
         THEN [errno |-> "ENOTDIR", loc |-> Step(loc, Head(comps)), dots |-> FALSE]
    ELSE Walk(f, Step(loc, Head(comps)), Tail(comps))

\* Resolution of a path name against the working directory (Root).
Resolve(f, path) ==
    IF path = <<>> THEN [errno |-> "ENOENT", loc |-> Root, dots |-> FALSE]
    ELSE Walk(f, IF Head(path) = "/" THEN <<>> ELSE Root, Components(path))

\* stat(path, &sb) != -1 && S_ISDIR(sb.st_mode)
StatIsDir(f, path) ==
    Resolve(f, path).errno = "OK" /\ IsDir(f, Resolve(f, path).loc)

\* mkdir(path, mode)
Mkdir(f, path) ==
    LET r == Resolve(f, path) IN
    IF r.errno # "OK" THEN [errno |-> r.errno, fs |-> f]
    ELSE IF r.loc \in DOMAIN f THEN [errno |-> "EEXIST", fs |-> f]
    ELSE [errno |-> "OK", fs |-> (r.loc :> DirNode) @@ f]

\* open(path, O_CREAT | O_WRONLY | O_CLOEXEC | O_EXCL, mode).  When the last
\* component is "." or ".." the kernel reports EEXIST or EISDIR, depending
\* on its version: dotErrno is the one this kernel gives.
OpenExcl(f, path, dotErrno) ==
    LET r == Resolve(f, path) IN
    IF r.errno # "OK" THEN [errno |-> r.errno, fs |-> f, loc |-> r.loc]
    ELSE IF r.dots THEN [errno |-> dotErrno, fs |-> f, loc |-> r.loc]
    ELSE IF EndsWith(path, <<"/">>) THEN [errno |-> "EISDIR", fs |-> f, loc |-> r.loc]
    ELSE IF r.loc \in DOMAIN f THEN [errno |-> "EEXIST", fs |-> f, loc |-> r.loc]
    ELSE [errno |-> "OK", fs |-> (r.loc :> FileNode(EmptyData)) @@ f, loc |-> r.loc]

\* open(path, O_WRONLY | O_CREAT | O_CLOEXEC | O_TRUNC, mode)
OpenTrunc(f, path) ==
    LET r == Resolve(f, path) IN
    IF r.errno # "OK" THEN [errno |-> r.errno, fs |-> f, loc |-> r.loc]
    ELSE IF r.dots \/ EndsWith(path, <<"/">>) \/ IsDir(f, r.loc)
         THEN [errno |-> "EISDIR", fs |-> f, loc |-> r.loc]
    ELSE [errno |-> "OK", fs |-> (r.loc :> FileNode(EmptyData)) @@ f, loc |-> r.loc]

\* ExtractEntryToFile(zah, &entry, fd) returning 0: the descriptor's file
\* holds the entry's content.
WriteFile(f, loc, data) == (loc :> FileNode(data)) @@ f

----------------------------------------------------------------------------
(* The functions of unzip.cpp.                                             *)

kAlways == "kAlways"
kNever  == "kNever"
kPrompt == "kPrompt"

\* ShouldInclude with the include loop run before the exclude loop.
ShouldInclude_IncludesFirst(n) ==
    IF includes # {} /\ \E include \in includes : fnmatch(include, n) THEN TRUE
    ELSE IF \E exclude \in excludes : fnmatch(exclude, n) THEN FALSE
    ELSE includes = {}

ShouldInclude(n) ==
    IF \E exclude \in excludes : fnmatch(exclude, n) THEN FALSE
    ELSE IF includes = {} THEN TRUE
    ELSE \E include \in includes : fnmatch(include, n)

\* Returns whether the hierarchy exists now, and the file system it leaves.
\* MakeDirectoryHierarchy once the call for the parent has returned.
MakeLast(parent, path) ==
    IF ~parent.ok THEN [ok |-> FALSE, fs |-> parent.fs]
    ELSE LET made == Mkdir(parent.fs, path) IN
         [ok |-> made.errno = "OK", fs |-> made.fs]

RECURSIVE MakeDirectoryHierarchy(_, _)
MakeDirectoryHierarchy(f, path) ==
    IF StatIsDir(f, path) THEN [ok |-> TRUE, fs |-> f]
    ELSE MakeLast(MakeDirectoryHierarchy(f, Dirname(path)), path)

\* static_cast<int> of the 64-bit value whose magnitude is 100 * a + t
\* (t < 100): the low 32 bits, read as a two's complement number.  The
\* magnitude is held in two 16-bit digits, hi and lo.
StaticCastInt(negative, a, t) ==
    LET low  == 100 * (a % 2^16) + t
        lo   == low % 2^16
        hi   == (100 * (a \div 2^16) + low \div 2^16) % 2^16
        nhi  == IF ~negative THEN hi
                ELSE IF lo = 0 THEN (2^16 - hi) % 2^16 ELSE 2^16 - 1 - hi
        nlo  == IF ~negative \/ lo = 0 THEN lo ELSE 2^16 - lo
    IN IF nhi >= 2^15 THEN (nhi - 2^16) * 2^16 + nlo ELSE nhi * 2^16 + nlo

\* (100LL * (uncompressed - compressed)) / uncompressed is a division of
\* 64-bit integers, which truncates toward zero: its magnitude is
\* 100 * a + t with a the quotient and t the scaled remainder of
\* |uncompressed - compressed| by uncompressed.
CompressionRatio(uncompressed, compressed) ==
    IF uncompressed = 0 THEN 0
    ELSE LET d == uncompressed - compressed
             m == IF d < 0 THEN -d ELSE d
         IN StaticCastInt(d < 0, m \div uncompressed,
                          (100 * (m % uncompressed)) \div uncompressed)

\* MaybeShowHeader printing "Archive:" whether or not flag_q is set.
MaybeShowHeader_NotQuiet ==
    IF is_unzip
    THEN << <<"Archive:", 0>> >>
         \o (IF flag_v THEN << <<"header -v", 0>> >>
             ELSE IF flag_l THEN << <<"header -l", 0>> >> ELSE <<>>)
    ELSE IF ~flag_1 /\ includes = {} /\ excludes = {}
         THEN << <<"Archive:", 0>>, <<"Zip file size:", 0>> >>
         ELSE <<>>

\* What MaybeShowHeader prints: the items of standard output, in order.
MaybeShowHeader ==
    IF is_unzip
    THEN (IF ~flag_q THEN << <<"Archive:", 0>> >> ELSE <<>>)
         \o (IF flag_v THEN << <<"header -v", 0>> >>
             ELSE IF flag_l THEN << <<"header -l", 0>> >> ELSE <<>>)
    ELSE IF ~flag_1 /\ includes = {} /\ excludes = {}
         THEN << <<"Archive:", 0>>, <<"Zip file size:", 0>> >>
         ELSE <<>>

\* What MaybeShowFooter prints: a totals line, with the ratio of the totals
\* where the format has one and the file count where it has not.
MaybeShowFooter ==
    IF is_unzip
    THEN IF flag_v
         THEN << <<"footer -v", CompressionRatio(total_uncompressed_length,
                                                 total_compressed_length)>> >>
         ELSE IF flag_l THEN << <<"footer -l", file_count>> >> ELSE <<>>
    ELSE IF ~flag_1 /\ includes = {} /\ excludes = {}
         THEN << <<"footer zipinfo", CompressionRatio(total_uncompressed_length,
                                                      total_compressed_length)>> >>
         ELSE <<>>

\* The test without its StartsWith(name, "../").
BadFilename_NoParentPrefix(n) ==
    \/ StartsWith(n, <<"/">>)
    \/ Contains(n, <<"/", ".", ".", "/">>)

\* The test without its name.find("/../").
BadFilename_NoEmbedded(n) ==
    \/ StartsWith(n, <<"/">>)
    \/ StartsWith(n, <<".", ".", "/">>)

\* The "Bad filename?" test of ExtractOne.
BadFilename(n) ==
    \/ StartsWith(n, <<"/">>)
    \/ StartsWith(n, <<".", ".", "/">>)
    \/ Contains(n, <<"/", ".", ".", "/">>)

\* ExtractOneCreate whose directory branch takes EEXIST for success without
\* its stat of the name.
ExtractOneCreate_NoStat(f, path, dotErrno) ==
    LET h == MakeDirectoryHierarchy(f, Dirname(path)) IN
    IF ~h.ok
    THEN [result |-> "error", message |-> "couldn't create directory hierarchy",
          fs |-> h.fs, loc |-> <<>>]
    ELSE IF EndsWith(path, <<"/">>)
         THEN LET made == Mkdir(h.fs, path) IN
              IF made.errno = "OK" \/ made.errno = "EEXIST"
              THEN [result |-> "return", message |-> "none", fs |-> made.fs, loc |-> <<>>]
              ELSE [result |-> "error", message |-> "couldn't extract directory",
                    fs |-> made.fs, loc |-> <<>>]
    ELSE LET o == OpenExcl(h.fs, path, dotErrno) IN
         IF o.errno = "OK"
         THEN [result |-> "opened", message |-> "none", fs |-> o.fs, loc |-> o.loc]
         ELSE IF o.errno = "EEXIST"
         THEN [result |-> "EEXIST", message |-> "none", fs |-> o.fs, loc |-> o.loc]
         ELSE [result |-> "error", message |-> "couldn't create file",
               fs |-> o.fs, loc |-> o.loc]

\* ExtractOneCreate whose directory branch takes every failure of mkdir,
\* EEXIST too, for an error.
ExtractOneCreate_NoExist(f, path, dotErrno) ==
    LET h == MakeDirectoryHierarchy(f, Dirname(path)) IN
    IF ~h.ok
    THEN [result |-> "error", message |-> "couldn't create directory hierarchy",
          fs |-> h.fs, loc |-> <<>>]
    ELSE IF EndsWith(path, <<"/">>)
         THEN LET made == Mkdir(h.fs, path) IN
              IF made.errno = "OK"
              THEN [result |-> "return", message |-> "none", fs |-> made.fs, loc |-> <<>>]
              ELSE [result |-> "error", message |-> "couldn't extract directory",
                    fs |-> made.fs, loc |-> <<>>]
    ELSE LET o == OpenExcl(h.fs, path, dotErrno) IN
         IF o.errno = "OK"
         THEN [result |-> "opened", message |-> "none", fs |-> o.fs, loc |-> o.loc]
         ELSE IF o.errno = "EEXIST"
         THEN [result |-> "EEXIST", message |-> "none", fs |-> o.fs, loc |-> o.loc]
         ELSE [result |-> "error", message |-> "couldn't create file",
               fs |-> o.fs, loc |-> o.loc]

\* ExtractOne from "Ensure the directory hierarchy exists" up to and
\* including the exclusive open.  result is
\*   "error"  : error(1, ...) was called with message, the process exits;
\*   "return" : the entry was a directory entry and is done;
\*   "EEXIST" : the exclusive open failed because the target exists;
\*   "opened" : the target was created and fd is open on it.
ExtractOneCreate(f, path, dotErrno) ==
    LET h == MakeDirectoryHierarchy(f, Dirname(path)) IN
    IF ~h.ok
    THEN [result |-> "error", message |-> "couldn't create directory hierarchy",
          fs |-> h.fs, loc |-> <<>>]
    ELSE IF EndsWith(path, <<"/">>)
         THEN LET made == Mkdir(h.fs, path) IN
              IF made.errno = "OK" \/ (made.errno = "EEXIST" /\ StatIsDir(made.fs, path))
              THEN [result |-> "return", message |-> "none", fs |-> made.fs, loc |-> <<>>]
              ELSE [result |-> "error", message |-> "couldn't extract directory",
                    fs |-> made.fs, loc |-> <<>>]
    ELSE LET o == OpenExcl(h.fs, path, dotErrno) IN
         IF o.errno = "OK"
         THEN [result |-> "opened", message |-> "none", fs |-> o.fs, loc |-> o.loc]
         ELSE IF o.errno = "EEXIST"
         THEN [result |-> "EEXIST", message |-> "none", fs |-> o.fs, loc |-> o.loc]
         ELSE [result |-> "error", message |-> "couldn't create file",
               fs |-> o.fs, loc |-> o.loc]

\* ExtractOne with the "Bad filename?" test moved below the call of
\* MakeDirectoryHierarchy.
ExtractOneOpen_GuardLate(f, path, dotErrno) ==
    IF MakeDirectoryHierarchy(f, Dirname(path)).ok /\ BadFilename(path)
    THEN [result |-> "error", message |-> "bad filename",
          fs |-> MakeDirectoryHierarchy(f, Dirname(path)).fs, loc |-> <<>>]
    ELSE ExtractOneCreate(f, path, dotErrno)

\* ExtractOne up to and including the exclusive open.
ExtractOneOpen(f, path, dotErrno) ==
    IF BadFilename(path)
    THEN [result |-> "error", message |-> "bad filename", fs |-> f, loc |-> <<>>]
    ELSE ExtractOneCreate(f, path, dotErrno)

\* OnExists without its "if (overwrite_mode == kNever) return".
OnExists_NeverOverwrites(mode) ==
    IF mode = kPrompt THEN "PromptOverwrite" ELSE "overwrite"

\* OnExists asking whenever the mode is not kNever.
OnExists_AlwaysAsks(mode) ==
    IF mode = kNever THEN "return" ELSE "PromptOverwrite"

\* OnExists returning under kAlways as it does under kNever.
OnExists_AlwaysSkips(mode) ==
    IF mode = kPrompt THEN "PromptOverwrite" ELSE "return"

\* What ExtractOne does when the exclusive open gave EEXIST.
OnExists(mode) ==
    IF mode = kNever THEN "return"
    ELSE IF mode = kPrompt THEN "PromptOverwrite"
    ELSE "overwrite"

\* The switch with case 'A' missing its assignment to overwrite_mode.
PromptSwitch_AllOnce(c, mode) ==
    IF c = "y" \/ c = "A" THEN [returns |-> "true", mode |-> mode]
    ELSE IF c = "n" THEN [returns |-> "false", mode |-> mode]
    ELSE IF c = "N" THEN [returns |-> "false", mode |-> kNever]
    ELSE [returns |-> "again", mode |-> mode]

\* The switch of PromptOverwrite on the first character of the line read:
\* what it returns ("again": it reads another line) and the mode it leaves.
PromptSwitch(c, mode) ==
    IF c = "y" THEN [returns |-> "true", mode |-> mode]
    ELSE IF c = "n" THEN [returns |-> "false", mode |-> mode]
    ELSE IF c = "A" THEN [returns |-> "true", mode |-> kAlways]
    ELSE IF c = "N" THEN [returns |-> "false", mode |-> kNever]
    ELSE [returns |-> "again", mode |-> mode]

\* ProcessOne testing flag_p before the list flags.
Dispatch_PipeFirst ==
    IF is_unzip
    THEN IF flag_p THEN "ExtractToPipe"
         ELSE IF flag_l \/ flag_v THEN "ListOne" ELSE "ExtractOne"
    ELSE "InfoOne"

\* The handler ProcessOne dispatches to.
Dispatch ==
    IF is_unzip
    THEN IF flag_l \/ flag_v THEN "ListOne"
         ELSE IF flag_p THEN "ExtractToPipe" ELSE "ExtractOne"
    ELSE "InfoOne"

\* ProcessOne's updates without its ++file_count.
AddTotals_NoCount(totals, e) ==
    [uncompressed |-> totals.uncompressed + e.uncompressed_length,
     compressed   |-> totals.compressed + e.compressed_length,
     count        |-> totals.count]

\* The totals after ProcessOne's three updates for entry e.
AddTotals(totals, e) ==
    [uncompressed |-> totals.uncompressed + e.uncompressed_length,
     compressed   |-> totals.compressed + e.compressed_length,
     count        |-> totals.count + 1]

Totals == [uncompressed |-> total_uncompressed_length,
           compressed   |-> total_compressed_length,
           count        |-> file_count]

----------------------------------------------------------------------------
(* The inputs of a run: what the archive parser may yield, what the        *)
(* command line may have set, what the extraction root may hold and what   *)
(* standard input may supply.                                              *)

Name_f       == <<"f">>
Name_a       == <<"a">>
Name_aSlash  == <<"a", "/">>
Name_a_f     == <<"a", "/", "f">>
Name_a__f    == <<"a", "/", "/", "f">>
Name_dot_f   == <<".", "/", "f">>
Name_up      == <<".", ".">>
Name_a_up    == <<"a", "/", ".", ".">>
Name_up_f    == <<".", ".", "/", "f">>
Name_root_f  == <<"/", "f">>
Name_a_up_f  == <<"a", "/", ".", ".", "/", "f">>

Names == {Name_f, Name_a, Name_aSlash, Name_a_f, Name_a__f, Name_dot_f,
          Name_up, Name_a_up, Name_up_f, Name_root_f, Name_a_up_f}

\* (uncompressed_length, compressed_length) of an entry.
Lengths == {<<0, 0>>, <<2, 3>>}

Patterns == {<<"*", "f">>, <<"a", "*">>, <<"?">>, <<".", ".">>}

IncludeSets == {{}, {<<"*", "f">>}, {<<"a", "*">>, <<"?">>}}
ExcludeSets == {{}, {<<"a", "*">>}, {<<"*", "f">>, <<".", ".">>}}

\* Outside the root: "/" and a file /f.  The root itself is /r.
Outside == (<<>> :> DirNode) @@ (<< <<"f">> >> :> FileNode(OldData))
            @@ (Root :> DirNode)

InRoot(comps) == Root \o comps

FileSystems ==
    { Outside,
      (InRoot(<< <<"f">> >>) :> FileNode(OldData)) @@ Outside,
      (InRoot(<< <<"f">> >>) :> FileNode(OldData))
          @@ (InRoot(<< <<"a">> >>) :> DirNode)
          @@ (InRoot(<< <<"a">>, <<"f">> >>) :> FileNode(OldData)) @@ Outside,
      (InRoot(<< <<"a">> >>) :> FileNode(OldData)) @@ Outside }

\* First characters of the lines standard input may hold ("x": any
\* character other than y, n, A, N), and end of file.
Answers == {"y", "n", "A", "N", "x"}

\* The archive's path on the command line.
ArchiveName == <<"z">>

NoEntry == [name |-> <<>>, uncompressed_length |-> 0, compressed_length |-> 0,
            data |-> EmptyData]

----------------------------------------------------------------------------
(* The run.                                                                *)

\* The option loop is over and has set archive_name (the command line
\* itself is not kept).
Parsed ==
    /\ argv = <<>>
    /\ optind = 1
    /\ archive_name = ArchiveName

\* No call of MakeDirectoryHierarchy is looked at on its own.
NoCall ==
    /\ mdh_path = <<>>
    /\ returned = <<>>

\* The command lines looked at: -1, and -q without -p, come without
\* patterns (what they switch off does not depend on the patterns).
QuietWithoutPatterns ==
    (flag_1 \/ (flag_q /\ ~flag_p)) => (includes = {} /\ excludes = {})

NoneAccepted == [uncompressed |-> 0, compressed |-> 0, count |-> 0, ids |-> <<>>]

\* main() after its option loop: the flags, the mode and the pattern sets
\* are what the command line set them to.
Init ==
    /\ Parsed
    /\ is_unzip \in BOOLEAN
    /\ flag_l \in BOOLEAN /\ flag_v \in BOOLEAN /\ flag_p \in BOOLEAN
    /\ flag_q \in BOOLEAN /\ flag_1 \in BOOLEAN
    /\ flag_p => flag_q
    /\ overwrite_mode \in {kAlways, kNever, kPrompt}
    /\ is_unzip \/ (~flag_l /\ ~flag_v /\ ~flag_p /\ ~flag_q /\ overwrite_mode = kPrompt)
    /\ is_unzip => ~flag_1
    /\ includes \in IncludeSets
    /\ excludes \in ExcludeSets
    /\ QuietWithoutPatterns
    /\ flag_x = (excludes # {})
    /\ total_uncompressed_length = 0
    /\ total_compressed_length = 0
    /\ file_count = 0
    /\ fs0 \in FileSystems
    /\ fs = fs0
    /\ pc = "OpenArchive"
    /\ name = <<>>
    /\ entry = NoEntry
    /\ cmd = "none"
    /\ diagnostic = "none"
    /\ prompts = 0
    /\ zah = "none"
    /\ cookie = "none"
    /\ releases = <<>>
    /\ open_fds = 0
    /\ exit_status = -1
    /\ fetched = 0
    /\ accepted = NoneAccepted
    /\ trace = <<>>
    /\ NoCall

\* error(1, ..., message): the process exits with status 1, leaving f
\* behind, after the run did out.
Die(f, message, out) ==
    /\ trace' = trace \o out
    /\ pc' = "exit"
    /\ exit_status' = 1
    /\ diagnostic' = message
    /\ fs' = f
    /\ name' = <<>>
    /\ entry' = NoEntry
    /\ cmd' = "none"

\* ExtractOne (or another handler) returned: ProcessOne updates the totals
\* and ProcessAll's loop calls Next again.
Return(f, out) ==
    /\ trace' = trace \o out \o << <<"totals", entry.data>> >>
    /\ fs' = f
    /\ pc' = "Next"
    /\ total_uncompressed_length' = AddTotals(Totals, entry).uncompressed
    /\ total_compressed_length' = AddTotals(Totals, entry).compressed
    /\ file_count' = AddTotals(Totals, entry).count
    /\ name' = <<>>
    /\ entry' = NoEntry
    /\ cmd' = "none"
    /\ UNCHANGED <<exit_status, diagnostic>>

\* What "if (!flag_q) printf("  inflating: ...")" prints.
Inflating == IF ~flag_q THEN << <<"inflating:", entry.data>> >> ELSE <<>>

\* Inflate without its close(fd).
Inflate_NoClose(f, loc, opened) ==
    \E err \in {0, -1} :
        IF err < 0
        THEN /\ Die(f, "failed to extract", opened \o Inflating)
             /\ open_fds' = open_fds + 1
             /\ UNCHANGED <<total_uncompressed_length, total_compressed_length, file_count>>
        ELSE /\ Return(WriteFile(f, loc, entry.data),
                       opened \o Inflating \o << <<"ExtractEntryToFile", entry.data>> >>)
             /\ open_fds' = open_fds + 1

\* Inflate printing its "inflating:" line after the extraction.
Inflate_PrintsLast(f, loc, opened) ==
    \E err \in {0, -1} :
        IF err < 0
        THEN /\ Die(f, "failed to extract", opened \o Inflating)
             /\ open_fds' = open_fds + 1
             /\ UNCHANGED <<total_uncompressed_length, total_compressed_length, file_count>>
        ELSE /\ Return(WriteFile(f, loc, entry.data),
                       opened \o << <<"ExtractEntryToFile", entry.data>> >> \o Inflating)
             /\ UNCHANGED open_fds

\* ExtractOne from "Actually extract into the file": fd is open on loc,
\* opened by the call that opened logs.  ExtractEntryToFile fails (err < 0)
\* and error() exits with fd open, or it fills the file and fd is closed.
Inflate(f, loc, opened) ==
    \E err \in {0, -1} :
        IF err < 0
        THEN /\ Die(f, "failed to extract", opened \o Inflating)
             /\ open_fds' = open_fds + 1
             /\ UNCHANGED <<total_uncompressed_length, total_compressed_length, file_count>>
        ELSE /\ Return(WriteFile(f, loc, entry.data),
                       opened \o Inflating \o << <<"ExtractEntryToFile", entry.data>> >>)
             /\ UNCHANGED open_fds

\* ExtractOne's second open, and what follows it.
Overwrite(f) ==
    LET o == OpenTrunc(f, entry.name) IN
    IF o.errno = "OK" THEN Inflate(o.fs, o.loc, << <<"open O_TRUNC", entry.data>> >>)
    ELSE /\ Die(o.fs, "couldn't create file", <<>>)
         /\ UNCHANGED <<open_fds, total_uncompressed_length, total_compressed_length, file_count>>

\* main: OpenArchive, then the chdir into the -d directory when one was
\* given (flag_d is not kept: the working directory after it is Root).
OpenArchive ==
    /\ pc = "OpenArchive"
    /\ \E err \in {0, -1}, chdir \in {0, -1} :
         IF err # 0
         THEN Die(fs, "couldn't open", <<>>) /\ UNCHANGED zah
         ELSE /\ zah' = "open"
              /\ IF chdir = -1
                 THEN Die(fs, "couldn't chdir", <<>>)
                 ELSE /\ pc' = "ProcessAll"
                      /\ UNCHANGED <<fs, exit_status, diagnostic, name, entry, cmd, trace>>
    /\ UNCHANGED <<config, overwrite_mode, total_uncompressed_length,
                   total_compressed_length, file_count, cookie,
                   releases, open_fds, prompts, fetched, accepted>>

\* ProcessAll: MaybeShowHeader and StartIteration.
StartIteration ==
    /\ pc = "ProcessAll"
    /\ \E err \in {0, -1} :
         IF err # 0
         THEN Die(fs, "couldn't iterate", MaybeShowHeader) /\ UNCHANGED cookie
         ELSE /\ cookie' = "open"
              /\ pc' = "Next"
              /\ trace' = trace \o MaybeShowHeader
              /\ UNCHANGED <<fs, exit_status, diagnostic, name, entry, cmd>>
    /\ UNCHANGED <<config, overwrite_mode, total_uncompressed_length,
                   total_compressed_length, file_count, zah,
                   releases, open_fds, prompts, fetched, accepted>>

\* The entry Next() yields as the run's k-th.
Yielded(n, len, k) ==
    [name |-> n, uncompressed_length |-> len[1], compressed_length |-> len[2],
     data |-> k]

\* ProcessAll's loop: Next() yields an entry that ShouldInclude rejects.
NextRejected ==
    /\ pc = "Next"
    /\ fetched < MaxEntries
    /\ \E n \in Names :
         /\ ~ShouldInclude(n)
         /\ name' = n
         /\ fetched' = fetched + 1
    /\ UNCHANGED <<config, overwrite_mode, total_uncompressed_length,
                   total_compressed_length, file_count, fs, pc, entry, cmd,
                   zah, cookie, releases, open_fds, exit_status, diagnostic,
                   prompts, accepted, trace>>

\* ProcessAll's loop: Next() yields an entry that ShouldInclude accepts, and
\* ProcessOne is called for it.
NextAccepted ==
    /\ pc = "Next"
    /\ fetched < MaxEntries
    /\ \E n \in Names, len \in Lengths :
         /\ ShouldInclude(n)
         /\ name' = n
         /\ fetched' = fetched + 1
         /\ entry' = Yielded(n, len, fetched + 1)
         /\ accepted' = [uncompressed |-> accepted.uncompressed + len[1],
                         compressed   |-> accepted.compressed + len[2],
                         count        |-> accepted.count + 1,
                         ids          |-> Append(accepted.ids, fetched + 1)]
    /\ pc' = "ProcessOne"
    /\ UNCHANGED <<config, overwrite_mode, total_uncompressed_length,
                   total_compressed_length, file_count, fs, cmd, zah, cookie,
                   releases, open_fds, exit_status, diagnostic, prompts, trace>>

\* ProcessOne for ListOne and InfoOne, which only print.
ListOrInfoOne ==
    /\ pc = "ProcessOne"
    /\ Dispatch \in {"ListOne", "InfoOne"}
    /\ Return(fs, << <<Dispatch, entry.data>> >>)
    /\ UNCHANGED <<config, overwrite_mode, zah, cookie, releases,
                   open_fds, prompts, fetched, accepted>>

\* ProcessOne for ExtractToPipe: ExtractToMemory, then WriteFully to stdout.
ExtractToPipe ==
    /\ pc = "ProcessOne"
    /\ Dispatch = "ExtractToPipe"
    /\ \E err \in {0, -1}, written \in BOOLEAN :
         IF err < 0
         THEN /\ Die(fs, "failed to extract", <<>>)
              /\ UNCHANGED <<total_uncompressed_length, total_compressed_length, file_count>>
         ELSE IF ~written
         THEN /\ Die(fs, "failed to write to stdout", <<>>)
              /\ UNCHANGED <<total_uncompressed_length, total_compressed_length, file_count>>
         ELSE Return(fs, << <<"WriteFully", entry.data>> >>)
    /\ UNCHANGED <<config, overwrite_mode, zah, cookie, releases,
                   open_fds, prompts, fetched, accepted>>

\* ProcessOne for ExtractOne, up to its return or to the first getline() of
\* PromptOverwrite.
ExtractOneRest(x) ==
         IF x.result = "error"
         THEN /\ Die(x.fs, x.message, <<>>)
              /\ UNCHANGED <<open_fds, prompts, total_uncompressed_length,
                             total_compressed_length, file_count>>
         ELSE IF x.result = "return"
              THEN /\ Return(x.fs, << <<"directory", entry.data>> >>)
                   /\ UNCHANGED <<open_fds, prompts>>
         ELSE IF x.result = "opened"
              THEN /\ Inflate(x.fs, x.loc, << <<"open O_EXCL", entry.data>> >>)
                   /\ UNCHANGED prompts
         ELSE IF OnExists(overwrite_mode) = "return"
              THEN Return(x.fs, <<>>) /\ UNCHANGED <<open_fds, prompts>>
         ELSE IF OnExists(overwrite_mode) = "overwrite"
              THEN Overwrite(x.fs) /\ UNCHANGED prompts
         ELSE /\ pc' = "PromptOverwrite"
              /\ prompts' = prompts + 1
              /\ trace' = Append(trace, <<"replace?", entry.data>>)
              /\ fs' = x.fs
              /\ UNCHANGED <<open_fds, exit_status, diagnostic, name, entry, cmd,
                             total_uncompressed_length,
                             total_compressed_length, file_count>>

ExtractOne ==
    /\ pc = "ProcessOne"
    /\ Dispatch = "ExtractOne"
    /\ \E dotErrno \in {"EEXIST", "EISDIR"} :
         ExtractOneRest(ExtractOneOpen(fs, entry.name, dotErrno))
    /\ UNCHANGED <<config, overwrite_mode, zah, cookie, releases,
                   fetched, accepted>>

\* PromptOverwrite's getline(): it gives a line, or -1 at end of file or on
\* a read error.
GetLine ==
    /\ pc = "PromptOverwrite"
    /\ cmd' \in Answers \cup {"EOF"}
    /\ pc' = "getline returned"
    /\ UNCHANGED <<config, overwrite_mode, total_uncompressed_length,
                   total_compressed_length, file_count, fs, name, entry, zah,
                   cookie, releases, open_fds, exit_status, diagnostic, prompts,
                   fetched, accepted, trace>>

\* PromptOverwrite after getline() gave a line, up to the next getline() or,
\* when it returns, to ExtractOne's return.
PromptAnswer ==
    /\ pc = "getline returned"
    /\ cmd # "EOF"
    /\ LET sw == PromptSwitch(cmd, overwrite_mode) IN
       /\ overwrite_mode' = sw.mode
       /\ IF sw.returns = "again"
          THEN /\ pc' = "PromptOverwrite"
               /\ cmd' = "none"
               /\ UNCHANGED <<fs, name, entry, open_fds, exit_status, diagnostic,
                              total_uncompressed_length,
                              total_compressed_length, file_count, trace>>
          ELSE IF sw.returns = "false" THEN Return(fs, <<>>) /\ UNCHANGED open_fds
          ELSE Overwrite(fs)
    /\ UNCHANGED <<config, zah, cookie, releases, prompts, fetched, accepted>>

\* PromptOverwrite after getline() returned -1: error(1, 0, "(EOF/read
\* error; assuming [N]one...)") exits, and the two statements after it
\* never run.
PromptEOF ==
    /\ pc = "getline returned"
    /\ cmd = "EOF"
    /\ Die(fs, "(EOF/read error; assuming [N]one...)", <<>>)
    /\ UNCHANGED <<config, overwrite_mode, total_uncompressed_length,
                   total_compressed_length, file_count, zah, cookie,
                   releases, open_fds, prompts, fetched, accepted>>

\* The end of the loop without the call of EndIteration.
EndIteration_Missing ==
    /\ pc = "Next"
    /\ pc' = "CloseArchive"
    /\ name' = <<>>
    /\ trace' = trace \o MaybeShowFooter
    /\ UNCHANGED <<config, overwrite_mode, total_uncompressed_length,
                   total_compressed_length, file_count, fs, entry, cmd, zah,
                   cookie, releases, open_fds, exit_status, diagnostic, prompts,
                   fetched, accepted>>

\* Next() returns -1, no more entries: EndIteration, MaybeShowFooter, and
\* ProcessAll returns.
EndIteration ==
    /\ pc = "Next"
    /\ cookie' = "ended"
    /\ releases' = Append(releases, "cookie")
    /\ pc' = "CloseArchive"
    /\ name' = <<>>
    /\ trace' = trace \o MaybeShowFooter
    /\ UNCHANGED <<config, overwrite_mode, total_uncompressed_length,
                   total_compressed_length, file_count, fs, entry, cmd, zah,
                   open_fds, exit_status, diagnostic, prompts, fetched, accepted>>

\* Next() returns an error below -1: error(1, 0, "failed iterating ...").
NextFailed ==
    /\ pc = "Next"
    /\ Die(fs, "failed iterating", <<>>)
    /\ UNCHANGED <<config, overwrite_mode, total_uncompressed_length,
                   total_compressed_length, file_count, zah, cookie,
                   releases, open_fds, prompts, fetched, accepted>>

\* main: CloseArchive and return 0.
CloseArchive ==
    /\ pc = "CloseArchive"
    /\ zah' = "closed"
    /\ releases' = Append(releases, "zah")
    /\ pc' = "exit"
    /\ exit_status' = 0
    /\ UNCHANGED <<config, overwrite_mode, total_uncompressed_length,
                   total_compressed_length, file_count, fs, name, entry, cmd,
                   cookie, open_fds, diagnostic, prompts, fetched, accepted,
                   trace>>

Next ==
    \/ OpenArchive
    \/ StartIteration
    \/ NextRejected
    \/ NextAccepted
    \/ ListOrInfoOne
    \/ ExtractToPipe
    \/ ExtractOne
    \/ GetLine
    \/ PromptAnswer
    \/ PromptEOF
    \/ EndIteration
    \/ NextFailed
    \/ CloseArchive

Spec == Init /\ [][Next]_vars

\* Runs of zipinfo, with every include and exclude set over Patterns.
ZipinfoInit ==
    /\ Parsed
    /\ is_unzip = FALSE
    /\ flag_l = FALSE /\ flag_v = FALSE /\ flag_p = FALSE /\ flag_q = FALSE
    /\ flag_1 \in BOOLEAN
    /\ overwrite_mode = kPrompt
    /\ includes \in SUBSET Patterns
    /\ excludes \in SUBSET Patterns
    /\ QuietWithoutPatterns
    /\ flag_x = (excludes # {})
    /\ total_uncompressed_length = 0
    /\ total_compressed_length = 0
    /\ file_count = 0
    /\ fs0 \in FileSystems
    /\ fs = fs0
    /\ pc = "OpenArchive"
    /\ name = <<>>
    /\ entry = NoEntry
    /\ cmd = "none"
    /\ diagnostic = "none"
    /\ prompts = 0
    /\ zah = "none"
    /\ cookie = "none"
    /\ releases = <<>>
    /\ open_fds = 0
    /\ exit_status = -1
    /\ fetched = 0
    /\ accepted = NoneAccepted
    /\ trace = <<>>
    /\ NoCall

ZipinfoNext ==
    \/ OpenArchive
    \/ StartIteration
    \/ NextRejected
    \/ NextAccepted
    \/ ListOrInfoOne
    \/ EndIteration
    \/ NextFailed
    \/ CloseArchive

ZipinfoSpec == ZipinfoInit /\ [][ZipinfoNext]_vars

----------------------------------------------------------------------------
(* The option loop of main().                                              *)

\* Longest command line looked at (argv[0] not counted).
MaxArgs == 4

Arg_x   == <<"-", "x">>
Arg_p   == <<"-", "p">>
Arg_End == <<"-", "-">>

\* What the elements of argv may be: options, the end-of-options mark and
\* words (the archive's path, patterns).
Args == {Arg_x, Arg_p, Arg_End, ArchiveName, <<"*", "f">>, <<"?">>}

\* The option characters of the two getopt strings, "-d:hlnopqvx" and
\* "-1hx".
OptString ==
    IF is_unzip THEN {"d", "h", "l", "n", "o", "p", "q", "v", "x"}
    ELSE {"1", "h", "x"}

\* getopt_long(argc, argv, "-...", opts, nullptr) with optind = ind.  The
\* leading '-' of the option string makes it return each non-option
\* element as the argument of option 1 (here "\\1"); "--" ends the scan
\* whatever follows it, and so does the end of argv (here "-1").
getopt_long(args, ind) ==
    IF ind > Len(args) THEN [opt |-> "-1", optarg |-> <<>>, optind |-> ind]
    ELSE IF args[ind] = Arg_End
         THEN [opt |-> "-1", optarg |-> <<>>, optind |-> ind + 1]
    ELSE IF Len(args[ind]) > 1 /\ Head(args[ind]) = "-"
         THEN [opt |-> IF args[ind][2] \in OptString THEN args[ind][2] ELSE "?",
               optarg |-> <<>>, optind |-> ind + 1]
    ELSE [opt |-> "\\1", optarg |-> args[ind], optind |-> ind + 1]

\* HandleCommonOption testing flag_x before archive_name.
HandleCommonOption_ExcludeFirst(opt, optarg) ==
    IF opt = "x"
    THEN [archive_name |-> archive_name, flag_x |-> TRUE, includes |-> includes,
          excludes |-> excludes, ShowHelp |-> FALSE]
    ELSE IF opt = "\\1"
    THEN IF flag_x
         THEN [archive_name |-> archive_name, flag_x |-> flag_x,
               includes |-> includes, excludes |-> excludes \cup {optarg},
               ShowHelp |-> FALSE]
         ELSE IF archive_name = <<>>
         THEN [archive_name |-> optarg, flag_x |-> flag_x, includes |-> includes,
               excludes |-> excludes, ShowHelp |-> FALSE]
         ELSE [archive_name |-> archive_name, flag_x |-> flag_x,
               includes |-> includes \cup {optarg}, excludes |-> excludes,
               ShowHelp |-> FALSE]
    ELSE [archive_name |-> archive_name, flag_x |-> flag_x, includes |-> includes,
          excludes |-> excludes, ShowHelp |-> TRUE]

\* HandleCommonOption: what it leaves in archive_name, flag_x, includes and
\* excludes, and whether it calls ShowHelp, which exits.
HandleCommonOption(opt, optarg) ==
    IF opt = "x"
    THEN [archive_name |-> archive_name, flag_x |-> TRUE, includes |-> includes,
          excludes |-> excludes, ShowHelp |-> FALSE]
    ELSE IF opt = "\\1"
    THEN IF archive_name = <<>>
         THEN [archive_name |-> optarg, flag_x |-> flag_x, includes |-> includes,
               excludes |-> excludes, ShowHelp |-> FALSE]
         ELSE IF flag_x
         THEN [archive_name |-> archive_name, flag_x |-> flag_x,
               includes |-> includes, excludes |-> excludes \cup {optarg},
               ShowHelp |-> FALSE]
         ELSE [archive_name |-> archive_name, flag_x |-> flag_x,
               includes |-> includes \cup {optarg}, excludes |-> excludes,
               ShowHelp |-> FALSE]
    ELSE [archive_name |-> archive_name, flag_x |-> flag_x, includes |-> includes,
          excludes |-> excludes, ShowHelp |-> TRUE]

\* main() before its option loop.
ArgsInit ==
    /\ argv \in UNION {[1..n -> Args] : n \in 0..MaxArgs}
    /\ optind = 1
    /\ archive_name = <<>>
    /\ is_unzip \in BOOLEAN
    /\ flag_1 = FALSE /\ flag_l = FALSE /\ flag_p = FALSE
    /\ flag_q = FALSE /\ flag_v = FALSE /\ flag_x = FALSE
    /\ overwrite_mode = kPrompt
    /\ includes = {}
    /\ excludes = {}
    /\ total_uncompressed_length = 0
    /\ total_compressed_length = 0
    /\ file_count = 0
    /\ fs0 = Outside
    /\ fs = fs0
    /\ pc = "getopt_long"
    /\ name = <<>>
    /\ entry = NoEntry
    /\ cmd = "none"
    /\ diagnostic = "none"
    /\ prompts = 0
    /\ zah = "none"
    /\ cookie = "none"
    /\ releases = <<>>
    /\ open_fds = 0
    /\ exit_status = -1
    /\ fetched = 0
    /\ accepted = NoneAccepted
    /\ trace = <<>>
    /\ NoCall

\* One turn of the option loop: getopt_long gives an option or a word, and
\* the switch (of unzip: case 'p', else HandleCommonOption; of zipinfo:
\* HandleCommonOption) handles it.
OptionLoop ==
    /\ pc = "getopt_long"
    /\ getopt_long(argv, optind).opt # "-1"
    /\ optind' = getopt_long(argv, optind).optind
    /\ IF is_unzip /\ getopt_long(argv, optind).opt = "p"
       THEN /\ flag_p' = TRUE
            /\ flag_q' = TRUE
            /\ UNCHANGED <<archive_name, flag_x, includes, excludes, pc,
                           exit_status, diagnostic>>
       ELSE LET h == HandleCommonOption(getopt_long(argv, optind).opt,
                                        getopt_long(argv, optind).optarg) IN
            /\ archive_name' = h.archive_name
            /\ flag_x' = h.flag_x
            /\ includes' = h.includes
            /\ excludes' = h.excludes
            /\ pc' = IF h.ShowHelp THEN "exit" ELSE pc
            /\ exit_status' = IF h.ShowHelp THEN 1 ELSE exit_status
            /\ diagnostic' = IF h.ShowHelp THEN "usage" ELSE diagnostic
            /\ UNCHANGED <<flag_p, flag_q>>
    /\ UNCHANGED <<argv, is_unzip, flag_1, flag_l, flag_v, overwrite_mode,
                   total_uncompressed_length, total_compressed_length,
                   file_count, fs, fs0, name, entry, cmd, zah, cookie,
                   releases, open_fds, prompts, fetched, accepted, trace,
                   mdh_path, returned>>

\* getopt_long returns -1, the loop ends: "if (!archive_name) error(1, ...)".
LoopDone ==
    /\ pc = "getopt_long"
    /\ getopt_long(argv, optind).opt = "-1"
    /\ optind' = getopt_long(argv, optind).optind
    /\ IF archive_name = <<>>
       THEN Die(fs, "missing archive filename", <<>>)
       ELSE /\ pc' = "OpenArchive"
            /\ UNCHANGED <<fs, exit_status, diagnostic, name, entry, cmd, trace>>
    /\ UNCHANGED <<argv, archive_name, is_unzip, flag_1, flag_l, flag_p, flag_q,
                   flag_v, flag_x, includes, excludes, overwrite_mode,
                   total_uncompressed_length, total_compressed_length,
                   file_count, fs0, zah, cookie, releases, open_fds, prompts,
                   fetched, accepted, mdh_path, returned>>

ArgsNext ==
    \/ OptionLoop
    \/ LoopDone

ArgsSpec == ArgsInit /\ [][ArgsNext]_vars

----------------------------------------------------------------------------
(* The footer: runs of unzip -v and of zipinfo that have processed one     *)
(* entry and are at the head of ProcessAll's loop.                         *)

\* The lengths the entry may have (CompressionRatio's 100 * remainder is
\* computed in 32 bits here, which is enough for these).
RatioUncompressed == {0, 1, 2, 3, 4, 7, 100, 1000}
RatioCompressed   == {0, 1, 2, 3, 4, 7, 100, 21474838}

RatioInit ==
    /\ Parsed
    /\ is_unzip \in BOOLEAN
    /\ flag_v = is_unzip
    /\ flag_1 = FALSE /\ flag_l = FALSE /\ flag_p = FALSE
    /\ flag_q = FALSE /\ flag_x = FALSE
    /\ overwrite_mode = kPrompt
    /\ includes = {}
    /\ excludes = {}
    /\ total_uncompressed_length \in RatioUncompressed
    /\ total_compressed_length \in RatioCompressed
    /\ file_count = 1
    /\ fs0 = Outside
    /\ fs = fs0
    /\ pc = "Next"
    /\ name = <<>>
    /\ entry = NoEntry
    /\ cmd = "none"
    /\ diagnostic = "none"
    /\ prompts = 0
    /\ zah = "open"
    /\ cookie = "open"
    /\ releases = <<>>
    /\ open_fds = 0
    /\ exit_status = -1
    /\ fetched = 1
    /\ accepted = [uncompressed |-> total_uncompressed_length,
                   compressed   |-> total_compressed_length,
                   count        |-> 1,
                   ids          |-> <<1>>]
    /\ trace = MaybeShowHeader \o << <<Dispatch, 1>>, <<"totals", 1>> >>
    /\ NoCall

RatioNext ==
    \/ EndIteration
    \/ CloseArchive

RatioSpec == RatioInit /\ [][RatioNext]_vars

----------------------------------------------------------------------------
(* MakeDirectoryHierarchy on its own: it is called for a path, and then    *)
(* for the same path again.                                                *)

\* Calls looked at.
MaxCalls == 2

\* Relative paths: a, b, a/b, a/b/c, f/b, a/f, a/, a//b, ./a, ".", a/.,
\* a/./b (the Dirname of the entry name a/./b/f), a/.., a/../b and the
\* empty path.
Paths ==
    { <<"a">>, <<"b">>, <<"a", "/", "b">>, <<"a", "/", "b", "/", "c">>,
      <<"f", "/", "b">>, <<"a", "/", "f">>, <<"a", "/">>,
      <<"a", "/", "/", "b">>, <<".", "/", "a">>, <<".">>,
      <<"a", "/", ".">>, <<"a", "/", ".", "/", "b">>,
      <<"a", "/", ".", ".">>, <<"a", "/", ".", ".", "/", "b">>, <<>> }

MdhInit ==
    /\ Parsed
    /\ is_unzip = TRUE
    /\ flag_1 = FALSE /\ flag_l = FALSE /\ flag_p = FALSE
    /\ flag_q = FALSE /\ flag_v = FALSE /\ flag_x = FALSE
    /\ overwrite_mode = kPrompt
    /\ includes = {}
    /\ excludes = {}
    /\ total_uncompressed_length = 0
    /\ total_compressed_length = 0
    /\ file_count = 0
    /\ fs0 \in FileSystems
    /\ fs = fs0
    /\ pc = "MakeDirectoryHierarchy"
    /\ name = <<>>
    /\ entry = NoEntry
    /\ cmd = "none"
    /\ diagnostic = "none"
    /\ prompts = 0
    /\ zah = "open"
    /\ cookie = "open"
    /\ releases = <<>>
    /\ open_fds = 0
    /\ exit_status = -1
    /\ fetched = 0
    /\ accepted = NoneAccepted
    /\ trace = <<>>
    /\ mdh_path \in Paths
    /\ returned = <<>>

\* A call MakeDirectoryHierarchy(mdh_path) and its return.
CallMakeDirectoryHierarchy ==
    /\ pc = "MakeDirectoryHierarchy"
    /\ Len(returned) < MaxCalls
    /\ fs' = MakeDirectoryHierarchy(fs, mdh_path).fs
    /\ returned' = Append(returned, MakeDirectoryHierarchy(fs, mdh_path).ok)
    /\ UNCHANGED <<argv, optind, archive_name, is_unzip, flag_1, flag_l,
                   flag_p, flag_q, flag_v, flag_x, overwrite_mode, includes,
                   excludes, total_uncompressed_length,
                   total_compressed_length, file_count, fs0, pc, name, entry,
                   cmd, zah, cookie, releases, open_fds, exit_status,
                   diagnostic, prompts, fetched, accepted, trace, mdh_path>>

MdhNext == CallMakeDirectoryHierarchy

MdhSpec == MdhInit /\ [][MdhNext]_vars

----------------------------------------------------------------------------
(* Runs of "unzip ZIP a/ a/f" in an empty root: of the archive's entries   *)
(* those named a/ and a/f are accepted, in the order the archive has them  *)
(* (a/f stands for the file beneath the directory, whatever its name).     *)

OrderInit ==
    /\ Parsed
    /\ is_unzip = TRUE
    /\ flag_1 = FALSE /\ flag_l = FALSE /\ flag_p = FALSE
    /\ flag_q = FALSE /\ flag_v = FALSE /\ flag_x = FALSE
    /\ overwrite_mode \in {kAlways, kNever, kPrompt}
    /\ includes = {Name_aSlash, Name_a_f}
    /\ excludes = {}
    /\ total_uncompressed_length = 0
    /\ total_compressed_length = 0
    /\ file_count = 0
    /\ fs0 = Outside
    /\ fs = fs0
    /\ pc = "OpenArchive"
    /\ name = <<>>
    /\ entry = NoEntry
    /\ cmd = "none"
    /\ diagnostic = "none"
    /\ prompts = 0
    /\ zah = "none"
    /\ cookie = "none"
    /\ releases = <<>>
    /\ open_fds = 0
    /\ exit_status = -1
    /\ fetched = 0
    /\ accepted = NoneAccepted
    /\ trace = <<>>
    /\ NoCall

OrderNext ==
    \/ OpenArchive
    \/ StartIteration
    \/ NextRejected
    \/ NextAccepted
    \/ ExtractOne
    \/ GetLine
    \/ PromptAnswer
    \/ PromptEOF
    \/ EndIteration
    \/ NextFailed
    \/ CloseArchive

OrderSpec == OrderInit /\ [][OrderNext]_vars

----------------------------------------------------------------------------
(* Properties.                                                             *)

\* Some pattern of the set matches n.
Matches(patterns, n) == \E p \in patterns : fnmatch(p, n)

\* The location the entry ProcessOne is working on names, and whether a
\* regular file is there.
Target == Resolve(fs, entry.name).loc

TargetIsFile ==
    /\ ~EndsWith(entry.name, <<"/">>)
    /\ Resolve(fs, entry.name).errno = "OK"
    /\ ~Resolve(fs, entry.name).dots
    /\ IsFile(fs, Target)

\* This step re-opens the target with O_TRUNC and extracts into it: the
\* entry's content replaces the file's, or the parser fails and the run
\* ends with the file truncated.
OverwritesEntry ==
    \/ /\ pc' = "Next"
       /\ fs' = WriteFile(fs, Target, entry.data)
       /\ file_count' = file_count + 1
    \/ /\ pc' = "exit"
       /\ diagnostic' = "failed to extract"
       /\ fs' = WriteFile(fs, Target, EmptyData)

\* This step returns from ExtractOne without touching the file system.
SkipsEntry ==
    /\ pc' = "Next"
    /\ fs' = fs
    /\ file_count' = file_count + 1

\* C1: ShouldInclude accepts a name exactly when no exclude pattern matches
\* it and the include set is empty or holds a pattern that matches it; an
\* entry that reached ProcessOne was accepted by that rule and one the loop
\* passed over was rejected by it.
C1_ShouldInclude ==
    /\ \A n \in Names :
         ShouldInclude(n) <=>
            (~Matches(excludes, n) /\ (includes = {} \/ Matches(includes, n)))
    /\ pc = "ProcessOne" =>
         (~Matches(excludes, name) /\ (includes = {} \/ Matches(includes, name)))
    /\ (pc = "Next" /\ name # <<>>) =>
         (Matches(excludes, name) \/ (includes # {} /\ ~Matches(includes, name)))

\* An entry was passed over because an exclude pattern matches its name,
\* though an include pattern matches it too.
C1_Witness ==
    /\ pc = "Next"
    /\ name # <<>>
    /\ Matches(includes, name)
    /\ Matches(excludes, name)

\* Overwrite of the entry at hand is authorized: the mode is kAlways when
\* ExtractOne meets the conflict, or the mode is kPrompt and the line just
\* read starts with y or A.
Authorized ==
    \/ pc = "ProcessOne" /\ overwrite_mode = kAlways
    \/ pc = "getline returned" /\ overwrite_mode = kPrompt /\ cmd \in {"y", "A"}

\* C2: a step changes a file that existed before the run only when the
\* file is the target of the entry at hand and overwrite is authorized for
\* it; under kNever and after an answer n or N the file stays as it is.
C2_OverwriteNeedsAuthorization ==
    [][\A loc \in DOMAIN fs0 :
          (fs0[loc].kind = "file" /\ fs'[loc] # fs[loc])
             => (Authorized /\ loc = Target)]_vars

\* A file of the root that existed before the run holds an entry's content
\* after the user answered y to the prompt.
C2_Witness ==
    /\ overwrite_mode = kPrompt
    /\ prompts > 0
    /\ pc = "Next"
    /\ \E loc \in DOMAIN fs0 :
          InsideRoot(loc) /\ fs0[loc].kind = "file" /\ fs[loc].data > 0

FirstSegmentIsParent(n) ==
    /\ ~StartsWith(n, <<"/">>)
    /\ Components(n) # <<>>
    /\ Head(Components(n)) = DotDot

\* C4 as stated: ExtractOne ends the run for every name that begins with a
\* separator, whose first segment is "..", or that contains "/../".
C4_AsStated ==
    [][(/\ pc = "ProcessOne"
        /\ Dispatch = "ExtractOne"
        /\ \/ StartsWith(entry.name, <<"/">>)
           \/ FirstSegmentIsParent(entry.name)
           \/ Contains(entry.name, <<"/", ".", ".", "/">>))
         => (pc' = "exit" /\ exit_status' = 1)]_vars

\* C4, amended: ExtractOne ends the run with "bad filename" for every name
\* that begins with a separator, that begins with "../", or that contains
\* "/../" (the name ".." alone passes the test).
C4_GuardRejects ==
    [][(/\ pc = "ProcessOne"
        /\ Dispatch = "ExtractOne"
        /\ \/ StartsWith(entry.name, <<"/">>)
           \/ StartsWith(entry.name, <<".", ".", "/">>)
           \/ Contains(entry.name, <<"/", ".", ".", "/">>))
         => (pc' = "exit" /\ exit_status' = 1 /\ diagnostic' = "bad filename")]_vars

\* The run was ended by the "Bad filename?" test.
C4_Witness ==
    /\ pc = "exit"
    /\ exit_status = 1
    /\ diagnostic = "bad filename"

\* C5: when the entry ExtractOne is called for has a name that contains
\* "/../" or starts with "/" or "../", the run exits with status 1 and the
\* file system, what earlier entries left in it included, and the totals
\* are as before the call.
C5_AbortBeforeMutation ==
    [][(/\ pc = "ProcessOne"
        /\ Dispatch = "ExtractOne"
        /\ \/ Contains(entry.name, <<"/", ".", ".", "/">>)
           \/ StartsWith(entry.name, <<"/">>)
           \/ StartsWith(entry.name, <<".", ".", "/">>))
         => /\ pc' = "exit"
            /\ exit_status' = 1
            /\ fs' = fs
            /\ file_count' = file_count]_vars

\* The run was ended by the test after an earlier entry had been extracted,
\* and what that entry created is there.
C5_Witness ==
    /\ pc = "exit"
    /\ diagnostic = "bad filename"
    /\ file_count > 0
    /\ \E loc \in DOMAIN fs : loc \notin DOMAIN fs0 /\ IsFile(fs, loc) /\ fs[loc].data > 0

\* C6: PromptOverwrite is entered only under kPrompt and for a target that
\* exists, and the first character of each line read decides: y overwrites
\* and n skips, the mode staying kPrompt; A overwrites and the mode becomes
\* kAlways; N skips and the mode becomes kNever; after any other character
\* nothing has changed and getline is called again.
C6_PromptProtocol ==
    [][/\ (pc = "ProcessOne" /\ pc' = "PromptOverwrite")
            => (overwrite_mode = kPrompt /\ Target \in DOMAIN fs')
       /\ (pc = "getline returned" /\ cmd # "EOF")
            => /\ overwrite_mode = kPrompt
               /\ cmd = "y" => (overwrite_mode' = kPrompt /\ (TargetIsFile => OverwritesEntry))
               /\ cmd = "A" => (overwrite_mode' = kAlways /\ (TargetIsFile => OverwritesEntry))
               /\ cmd = "n" => (overwrite_mode' = kPrompt /\ SkipsEntry)
               /\ cmd = "N" => (overwrite_mode' = kNever /\ SkipsEntry)
               /\ cmd \notin {"y", "n", "A", "N"}
                    => /\ pc' = "PromptOverwrite"
                       /\ UNCHANGED <<overwrite_mode, fs, file_count, prompts, entry>>]_vars

\* The user answered A to a prompt: the target holds the entry's content
\* and the mode is kAlways.
C6_Witness ==
    /\ prompts > 0
    /\ overwrite_mode = kAlways
    /\ pc = "Next"
    /\ \E loc \in DOMAIN fs0 :
          InsideRoot(loc) /\ fs0[loc].kind = "file" /\ fs[loc].data > 0

\* C7: once the mode is kAlways or kNever it stays what it is and no
\* question is printed; an entry whose target file exists is overwritten
\* under kAlways and skipped under kNever; and the mode changes only in
\* PromptOverwrite's switch.
C7_AlwaysNeverAbsorbing ==
    [][/\ overwrite_mode \in {kAlways, kNever}
            => /\ overwrite_mode' = overwrite_mode
               /\ prompts' = prompts
               /\ pc' # "PromptOverwrite"
       /\ overwrite_mode' # overwrite_mode
            => (pc = "getline returned" /\ overwrite_mode = kPrompt)
       /\ (/\ pc = "ProcessOne"
           /\ Dispatch = "ExtractOne"
           /\ ~BadFilename(entry.name)
           /\ TargetIsFile)
            => /\ overwrite_mode = kAlways => OverwritesEntry
               /\ overwrite_mode = kNever => SkipsEntry]_vars

\* After one question, answered A, a second file that existed before the
\* run was overwritten without a question.
C7_Witness ==
    /\ prompts = 1
    /\ overwrite_mode = kAlways
    /\ \E l1, l2 \in DOMAIN fs0 :
          /\ l1 # l2
          /\ InsideRoot(l1) /\ fs0[l1].kind = "file" /\ fs[l1].data > 0
          /\ InsideRoot(l2) /\ fs0[l2].kind = "file" /\ fs[l2].data > 0

\* C8 as stated: after end of file at the prompt the run goes on, with the
\* mode kNever and the entry skipped.
C8_AsStated ==
    diagnostic = "(EOF/read error; assuming [N]one...)"
        => (exit_status # 1 /\ overwrite_mode = kNever)

\* C9: whenever ProcessAll is at its loop, or the run has completed, the
\* totals are the count and the sums of the entries ShouldInclude accepted;
\* while ProcessOne works on an entry they lack exactly that entry.
C9_TotalsCountAccepted ==
    /\ (pc \in {"Next", "CloseArchive"} \/ exit_status = 0)
          => /\ file_count = accepted.count
             /\ total_uncompressed_length = accepted.uncompressed
             /\ total_compressed_length = accepted.compressed
    /\ pc \in {"ProcessOne", "PromptOverwrite", "getline returned"}
          => /\ file_count + 1 = accepted.count
             /\ total_uncompressed_length + entry.uncompressed_length
                   = accepted.uncompressed
             /\ total_compressed_length + entry.compressed_length
                   = accepted.compressed

\* An extraction run under kNever counted entries without changing the
\* file system, and passed over others.
C9_Witness ==
    /\ pc = "Next"
    /\ Dispatch = "ExtractOne"
    /\ overwrite_mode = kNever
    /\ file_count = 2
    /\ total_uncompressed_length > 0
    /\ fetched > file_count
    /\ fs = fs0

\* How often resource r was released.
Released(r) == Cardinality({i \in 1..Len(releases) : releases[i] = r})

\* C10 as stated: when a run that acquired the handle and the cursor has
\* exited, the cursor was released exactly once and the handle was closed
\* exactly once.
C10_AsStated ==
    (pc = "exit" /\ zah # "none" /\ cookie # "none")
        => (Released("cookie") = 1 /\ Released("zah") = 1)

\* C10, amended: a run that completes (exit status 0) released the cursor
\* once, when Next reported no more entries, and then closed the handle
\* once; a run that error() ended (an iteration fault, an abort in a
\* handler) released neither.
C10_ReleasedOnCompletion ==
    /\ exit_status = 0 => (releases = <<"cookie", "zah">> /\ cookie = "ended" /\ zah = "closed")
    /\ exit_status = 1 => releases = <<>>
    /\ pc = "CloseArchive" => (releases = <<"cookie">> /\ cookie = "ended" /\ zah = "open")
    /\ pc \in {"Next", "ProcessOne", "PromptOverwrite", "getline returned"}
          => (releases = <<>> /\ cookie = "open" /\ zah = "open")

\* A run completed after processing entries.
C10_Witness ==
    /\ pc = "exit"
    /\ exit_status = 0
    /\ file_count > 0
    /\ releases = <<"cookie", "zah">>

\* The items of the trace that are output to standard output (by printf, or
\* by WriteFully(1, ...)); the others are what ExtractOne and ProcessOne did.
IsStdout(item) ==
    item[1] \in {"Archive:", "Zip file size:", "header -v", "header -l",
                 "ListOne", "InfoOne", "WriteFully", "replace?", "inflating:",
                 "footer -v", "footer -l", "footer zipinfo"}

Stdout == SelectSeq(trace, IsStdout)

\* The run's trace holds item.
InTrace(item) == \E i \in 1..Len(trace) : trace[i] = item

\* ExtractOne is about to be called for a directory entry.
DirectoryEntry ==
    /\ pc = "ProcessOne"
    /\ Dispatch = "ExtractOne"
    /\ EndsWith(entry.name, <<"/">>)

\* C11: ExtractOne for an entry whose name ends in "/" creates no regular
\* file and changes none, extracts nothing, does not prompt and does not
\* look at the overwrite mode; when it returns the name is a directory; a
\* directory that is already there is left as it is and the entry counts;
\* a name that exists and is not a directory ends the run with status 1.
C11_DirectoryEntry ==
    [][DirectoryEntry
         => /\ \A loc \in DOMAIN fs' :
                  IsFile(fs', loc) => (loc \in DOMAIN fs /\ fs'[loc] = fs[loc])
            /\ \/ trace' = trace
               \/ trace' = trace \o << <<"directory", entry.data>>,
                                       <<"totals", entry.data>> >>
            /\ UNCHANGED <<prompts, overwrite_mode, open_fds>>
            /\ pc' \in {"Next", "exit"}
            /\ pc' = "Next" =>
                  /\ IsDir(fs', Resolve(fs', entry.name).loc)
                  /\ file_count' = file_count + 1
            /\ (IsDir(fs, Target) /\ ~BadFilename(entry.name))
                  => (pc' = "Next" /\ fs' = fs)
            /\ (Target \in DOMAIN fs /\ ~IsDir(fs, Target))
                  => (pc' = "exit" /\ exit_status' = 1 /\ fs' = fs)]_vars

\* Under kPrompt a directory entry whose directory was there before the
\* run was handled without a question and without a change.
C11_Witness ==
    /\ pc = "Next"
    /\ Dispatch = "ExtractOne"
    /\ overwrite_mode = kPrompt
    /\ InTrace(<<"directory", 1>>)
    /\ IsDir(fs0, Root \o << <<"a">> >>)
    /\ prompts = 0
    /\ fs = fs0

\* The content of the entries ids, in that order, as written by WriteFully.
PipeBytes(ids) == [i \in 1..Len(ids) |-> <<"WriteFully", ids[i]>>]

AllButLast(s) == SubSeq(s, 1, Len(s) - 1)

\* C12: in a run of unzip with -p and without -l and -v, flag_q is set, the
\* file system is as it was before the run, no question was asked, and
\* standard output holds exactly the content of the accepted entries
\* processed so far, in iteration order, with no header and no "inflating"
\* line (in a completed run: of all accepted entries).
C12_PipeOnly ==
    (is_unzip /\ flag_p /\ ~flag_l /\ ~flag_v)
       => /\ flag_q
          /\ fs = fs0
          /\ prompts = 0
          /\ (pc \in {"Next", "CloseArchive"} \/ exit_status = 0)
                => Stdout = PipeBytes(accepted.ids)
          /\ pc = "ProcessOne" => Stdout = PipeBytes(AllButLast(accepted.ids))
          /\ exit_status = 1
                => Stdout \in {PipeBytes(accepted.ids),
                               PipeBytes(AllButLast(accepted.ids))}

\* A run with -p under kPrompt completed: it wrote the content of two
\* entries, passed over another, and left the file f of the root alone.
C12_Witness ==
    /\ is_unzip /\ flag_p /\ ~flag_l /\ ~flag_v
    /\ overwrite_mode = kPrompt
    /\ exit_status = 0
    /\ Len(accepted.ids) = 2
    /\ fetched = 3
    /\ Stdout = PipeBytes(accepted.ids)
    /\ IsFile(fs, Root \o << <<"f">> >>)

\* The positions of argv that hold a positional argument: neither an
\* option nor the "--" mark.
Positionals == {i \in 1..Len(argv) : ~(Len(argv[i]) > 1 /\ Head(argv[i]) = "-")}

\* The position of the first -x, and of the first "--" (past the end of
\* argv when there is none).
FirstOf(arg) ==
    IF \E i \in 1..Len(argv) : argv[i] = arg
    THEN CHOOSE i \in 1..Len(argv) :
            argv[i] = arg /\ \A j \in 1..(i - 1) : argv[j] # arg
    ELSE Len(argv) + 1

Least(S) == CHOOSE i \in S : \A j \in S : i <= j

IsRatio(r, uncompressed, compressed) ==
    IF uncompressed = 0 THEN r = 0
    ELSE LET d == uncompressed - compressed
             m == IF d < 0 THEN -d ELSE d
             a == m \div uncompressed
             t == (100 * (m % uncompressed)) \div uncompressed
         IN /\ a <= (2^30 - 1 + 2^30) \div 100 - 1
            /\ r = IF d < 0 THEN -(100 * a + t) ELSE 100 * a + t

\* C14 as stated: the ratio a footer shows is 0 when the uncompressed
\* total is 0 and otherwise 100 * (uncompressed - compressed) /
\* uncompressed of the totals, truncated toward zero, also when it is
\* negative.
C14_AsStated ==
    \A i \in 1..Len(trace) :
        trace[i][1] \in {"footer -v", "footer zipinfo"}
           => IsRatio(trace[i][2], total_uncompressed_length,
                      total_compressed_length)

\* A path and the paths Dirname leads to from it.
RECURSIVE Ancestors(_)
Ancestors(p) ==
    IF p = <<".">> \/ p = <<"/">> THEN {p} ELSE {p} \cup Ancestors(Dirname(p))

\* C15 as stated: a second call of MakeDirectoryHierarchy for the same path
\* returns what the first returned and changes nothing; a call for a path
\* that is a directory returns true and changes nothing; after a call that
\* returned true the path and every path above it are directories; and a
\* call returns false when the path or a path above it exists and is not a
\* directory.
C15_AsStated ==
    [][pc = "MakeDirectoryHierarchy" =>
         /\ Len(returned) = 1
               => (fs' = fs /\ returned' = <<returned[1], returned[1]>>)
         /\ StatIsDir(fs, mdh_path)
               => (fs' = fs /\ returned'[Len(returned')])
         /\ returned'[Len(returned')]
               => \A p \in Ancestors(mdh_path) : StatIsDir(fs', p)
         /\ (\E p \in Ancestors(mdh_path) :
                 Resolve(fs, p).errno = "OK" /\ IsFile(fs, Resolve(fs, p).loc))
               => ~returned'[Len(returned')]]_vars

\* C16 as stated: no descriptor ExtractOne opened is open when the next
\* entry is processed or when the run has ended, the run that a failing
\* ExtractEntryToFile ends included.
C16_AsStated == open_fds = 0

\* C16, amended: ExtractOne closes the descriptor it opened before it
\* returns, so none is open while the loop goes on or once a run has
\* completed; when ExtractEntryToFile fails, error() exits the process
\* with that one descriptor still open, close(fd) not having been reached.
C16_ClosedOnReturn ==
    /\ (pc # "exit" \/ exit_status = 0) => open_fds = 0
    /\ (exit_status = 1 /\ diagnostic # "failed to extract") => open_fds = 0
    /\ (exit_status = 1 /\ diagnostic = "failed to extract")
          => open_fds = IF Dispatch = "ExtractOne" THEN 1 ELSE 0

\* The first entry was extracted into a new file, and ExtractEntryToFile
\* failed for the second, for which a file had been opened too.
C16_Witness ==
    /\ pc = "exit"
    /\ diagnostic = "failed to extract"
    /\ InTrace(<<"ExtractEntryToFile", 1>>)
    /\ InTrace(<<"open O_EXCL", 2>>)
    /\ open_fds = 1

\* The place of an effect among the effects of one entry, in the order of
\* the statements of ExtractOne and ProcessOne; 0 for what is not an
\* effect of an entry (header and footer).
Rank(kind) ==
    IF kind = "replace?" THEN 1
    ELSE IF kind \in {"open O_EXCL", "open O_TRUNC", "directory"} THEN 2
    ELSE IF kind = "inflating:" THEN 3
    ELSE IF kind \in {"ExtractEntryToFile", "WriteFully", "ListOne", "InfoOne"} THEN 4
    ELSE IF kind = "totals" THEN 5
    ELSE 0

\* C17: in the trace of the run the effects of the entries come in
\* iteration order, all effects of an entry before any effect of a later
\* one, and those of one entry in the order question, open (truncating
\* re-open or creation), "inflating:" line, extraction, totals; an
\* "inflating:" line comes right after the open of the entry's file and for
\* no other entry, and without -q every such open is followed by one.
C17_InOrder ==
    /\ \A i, j \in 1..Len(trace) :
          (i < j /\ Rank(trace[i][1]) > 0 /\ Rank(trace[j][1]) > 0)
             => /\ trace[i][2] <= trace[j][2]
                /\ trace[i][2] = trace[j][2] => Rank(trace[i][1]) < Rank(trace[j][1])
    /\ \A i \in 1..Len(trace) :
          /\ trace[i][1] = "inflating:"
                => /\ i > 1
                   /\ trace[i - 1] \in {<<"open O_EXCL", trace[i][2]>>,
                                        <<"open O_TRUNC", trace[i][2]>>}
          /\ (trace[i][1] \in {"open O_EXCL", "open O_TRUNC"} /\ ~flag_q)
                => /\ i < Len(trace)
                   /\ trace[i + 1] = <<"inflating:", trace[i][2]>>
          /\ trace[i][1] = "open O_TRUNC"
                => (overwrite_mode = kAlways \/ InTrace(<<"replace?", trace[i][2]>>))

\* The first entry made a new file; for the second the user was asked and
\* agreed, and the file was re-opened, announced, written and counted.
C17_Witness ==
    /\ pc = "Next"
    /\ InTrace(<<"open O_EXCL", 1>>)
    /\ InTrace(<<"inflating:", 1>>)
    /\ InTrace(<<"replace?", 2>>)
    /\ InTrace(<<"open O_TRUNC", 2>>)
    /\ InTrace(<<"inflating:", 2>>)
    /\ InTrace(<<"ExtractEntryToFile", 2>>)
    /\ InTrace(<<"totals", 2>>)
    /\ InTrace(<<"totals", 3>>)

\* The run only lists: zipinfo, or unzip with -l or -v.
ListMode == ~is_unzip \/ flag_l \/ flag_v

\* The kinds of the items of s.
Kinds(s) == {s[i][1] : i \in 1..Len(s)}

\* C18: no step of a run of zipinfo, or of unzip with -l or -v (whatever
\* -o, -n and -p say), changes the file system, asks a question, changes
\* the overwrite mode or opens a file, and ProcessOne's step for an entry is
\* one row of ListOne (unzip) or InfoOne (zipinfo) followed by the totals;
\* in the other runs ProcessOne's step is ExtractToPipe's alone with -p and
\* ExtractOne's alone without.
C18_ListOnly ==
    [][/\ ListMode
            => /\ UNCHANGED <<fs, prompts, overwrite_mode, open_fds>>
               /\ pc' # "PromptOverwrite"
               /\ pc = "ProcessOne"
                    => /\ pc' = "Next"
                       /\ trace' = trace \o
                             << <<IF is_unzip THEN "ListOne" ELSE "InfoOne",
                                  entry.data>>,
                                <<"totals", entry.data>> >>
       /\ (~ListMode /\ pc = "ProcessOne")
            => /\ Kinds(trace') \cap {"ListOne", "InfoOne"} = {}
               /\ flag_p => /\ fs' = fs
                            /\ trace' \in {trace,
                                  trace \o << <<"WriteFully", entry.data>>,
                                              <<"totals", entry.data>> >>}
               /\ ~flag_p => "WriteFully" \notin Kinds(trace')]_vars

\* A run of unzip with -l, -p and the mode kAlways completed: it listed
\* two entries and the file f of the root is as it was.
C18_Witness ==
    /\ is_unzip /\ flag_l /\ flag_p
    /\ overwrite_mode = kAlways
    /\ exit_status = 0
    /\ InTrace(<<"ListOne", 1>>)
    /\ InTrace(<<"ListOne", 2>>)
    /\ IsFile(fs0, Root \o << <<"f">> >>)
    /\ fs = fs0

\* Where a and a/f are in the root.
Loc_a   == Root \o << <<"a">> >>
Loc_a_f == Root \o << <<"a">>, <<"f">> >>

\* The archive parser's extraction failed: the content could not be read.
ParserFailed == pc' = "exit" /\ diagnostic' = "failed to extract"

\* C19: in a run that starts with an empty root and accepts the entries
\* a/ and a/f, the first accepted entry is extracted whichever it is (a/
\* makes the directory, a/f makes the directory and the file); then a/
\* after a/f succeeds on the directory that is there, with no question and
\* no change, and a/f after a/ makes the file; either way a is then a
\* directory and a/f a file holding its entry's content.  (A step may
\* instead end the run because the parser could not read the content.)
C19_EitherOrder ==
    [][pc = "ProcessOne" =>
         /\ entry.name \in {Name_aSlash, Name_a_f}
         /\ (accepted.count = 1 /\ entry.name = Name_aSlash)
               => /\ pc' = "Next"
                  /\ trace' = trace \o << <<"directory", entry.data>>,
                                          <<"totals", entry.data>> >>
                  /\ IsDir(fs', Loc_a)
                  /\ Loc_a_f \notin DOMAIN fs'
         /\ (accepted.count = 1 /\ entry.name = Name_a_f)
               => \/ ParserFailed
                  \/ /\ pc' = "Next"
                     /\ \E i \in 1..Len(trace') :
                            trace'[i] = <<"open O_EXCL", entry.data>>
                     /\ IsDir(fs', Loc_a)
                     /\ fs'[Loc_a_f] = FileNode(entry.data)
         /\ (accepted.count = 2 /\ entry.name = Name_aSlash
               /\ InTrace(<<"open O_EXCL", accepted.ids[1]>>))
               => /\ pc' = "Next"
                  /\ prompts' = 0
                  /\ fs' = fs
                  /\ IsDir(fs', Loc_a)
                  /\ fs'[Loc_a_f] = FileNode(accepted.ids[1])
                  /\ file_count' = 2
         /\ (accepted.count = 2 /\ entry.name = Name_a_f
               /\ InTrace(<<"directory", accepted.ids[1]>>))
               => \/ ParserFailed
                  \/ /\ pc' = "Next"
                     /\ prompts' = 0
                     /\ IsDir(fs', Loc_a)
                     /\ fs'[Loc_a_f] = FileNode(entry.data)
                     /\ file_count' = 2]_vars

\* Under kPrompt a/f came first and a/ second: a is a directory, a/f holds
\* the first entry's content, and no question was asked.
C19_Witness ==
    /\ overwrite_mode = kPrompt
    /\ pc = "Next"
    /\ fs0 = Outside
    /\ includes = {Name_aSlash, Name_a_f}
    /\ trace = << <<"Archive:", 0>>,
                  <<"open O_EXCL", 1>>, <<"inflating:", 1>>,
                  <<"ExtractEntryToFile", 1>>, <<"totals", 1>>,
                  <<"directory", 2>>, <<"totals", 2>> >>
    /\ IsDir(fs, Loc_a)
    /\ fs[Loc_a_f] = FileNode(1)
    /\ prompts = 0

\* C20: when the target of the entry ExtractOne is called for is a file
\* that was not there before the run (an earlier entry of the run made
\* it), the entry is treated as for a file that was: under kNever it is
\* skipped and the file keeps the earlier content, under kAlways the
\* entry's content replaces it, under kPrompt the question is asked; and a
\* skipped or extracted entry is counted.
C20_CreatedInRun ==
    [][(/\ pc = "ProcessOne"
        /\ Dispatch = "ExtractOne"
        /\ ~BadFilename(entry.name)
        /\ TargetIsFile
        /\ Target \notin DOMAIN fs0)
         => /\ overwrite_mode = kNever => SkipsEntry
            /\ overwrite_mode = kAlways => OverwritesEntry
            /\ overwrite_mode = kPrompt
                  => /\ pc' = "PromptOverwrite"
                     /\ prompts' = prompts + 1
                     /\ trace' = Append(trace, <<"replace?", entry.data>>)
                     /\ UNCHANGED <<fs, file_count, overwrite_mode>>]_vars

\* Under kNever, in a root that was empty, the first entry made a file and
\* the second, which names the same file, was skipped and counted: the
\* file holds the first entry's content.
C20_Witness ==
    /\ overwrite_mode = kNever
    /\ fs0 = Outside
    /\ pc = "Next"
    /\ trace = << <<"Archive:", 0>>,
                  <<"open O_EXCL", 1>>, <<"inflating:", 1>>,
                  <<"ExtractEntryToFile", 1>>, <<"totals", 1>>,
                  <<"totals", 2>> >>
    /\ file_count = 2
    /\ \E loc \in DOMAIN fs : InsideRoot(loc) /\ fs[loc] = FileNode(1)

====
